---------------------------- MODULE Spec2Model ----------------------------
(***************************************************************************)
(* A model of buckle's package resolution and application pipeline:        *)
(*   core/package.rs   get_all_packages (manifest loading, the solvent     *)
(*                     dependency graph and its iterator)                  *)
(*   commands/apply.rs ApplyCommand::run and apply_package (retry loop)    *)
(*   commands/plan.rs  PlanCommand::run                                    *)
(* The file system and the child processes are the environment: what a     *)
(* directory holds and whether a step succeeds are inputs, drawn where the *)
(* code reads them.                                                        *)
(***************************************************************************)
EXTENDS Naturals, Sequences, FiniteSets

(* ------------------------------ bounds -------------------------------- *)
\* package directories when get_all_packages is called on its own
MaxPackages == 3
\* package directories of a plan or apply run
MaxRunPackages == 2
\* entries of one manifest's needs list
MaxNeeds == 2
\* largest retry.limit a manifest sets
MaxLimit == 2
\* the attempt counter of the model stops counting here (the loop goes on)
MaxAttempts == 3
\* files of one package, tasks of one package
MaxFiles == 1
MaxTasks == 1

(* --------------------------- program constants ------------------------ *)
\* retries and retry.limit are u8
U8Modulus == 256

\* the synthetic terminal node of the dependency graph
Complete == "__complete"
\* a package id that no directory carries
Ghost == "ghost"
PackageNames == <<"a", "b", "c", "d", "e">>

Min(x, y) == IF x < y THEN x ELSE y

Range(s) == {s[i] : i \in 1..Len(s)}

DirNames(n) == {PackageNames[i] : i \in 1..Min(n, Len(PackageNames))}

EmptyMap == [x \in {} |-> {}]

MapPut(m, k, v) == [x \in DOMAIN m \cup {k} |-> IF x = k THEN v ELSE m[x]]

\* Option: None, and Some(x)
None == <<>>

Some(x) == <<x>>

(* ------------------------------ state --------------------------------- *)
VARIABLES
  mode,             \* "resolve": get_all_packages alone; "plan"; "apply"
  dirs,             \* the sub-directories of <config>/packages
  manifest,         \* per directory: does package.yml load, and its needs
  pc,               \* the position of the program
  result,           \* "none" while running, then "Ok" or "Err"
  error,            \* <<kind, subject>> of the error returned
  packages_lookup,  \* get_all_packages: HashMap id -> Package (its needs)
  depgraph,         \* get_all_packages: the solvent DepGraph
  satisfied,        \* DepGraphIterator.satisfied
  packages,         \* the Vec get_all_packages builds, then run's list
  idx,              \* run: index in packages of the package in hand
  retries,          \* run: the u8 retry counter of the package in hand
  limit,            \* run: package.retry.limit of the package in hand
  files_left,       \* apply_package: files not yet applied (plan: listed)
  tasks_left,       \* apply_package: tasks not yet run (plan: listed)
  attempts,         \* history: apply_package calls for the package in hand
  failures,         \* history: of these, how many returned Err
  sleeps,           \* history: retry delays waited for the package in hand
  touched,          \* history: packages with at least one step executed
  succeeded,        \* history: packages with an attempt that returned Ok
  exhausted,        \* history: packages that failed more than limit times
  fileApplied,      \* history: packages with a File::apply call
  taskRan,          \* history: packages with a Script::run call
  spawned,          \* history: kinds of interpreter processes started
  previous,         \* what an earlier call of get_all_packages returned
  listing,          \* load_all_config: the files of the directory, as listed
  at,               \* load_all_config: files of the listing gone through
  output,           \* load_all_config: the HashMap it fills
  errs,             \* load_all_config: the Vec of errors it collects
  extent,           \* what the sources of a run may hold: keys, files, tasks
  config,           \* run: the global config map
  secrets,          \* run: the global secret map
  from_config,      \* what package.get_config() returned to this call
  from_secrets,     \* what package.get_secrets() returned to this call
  pkg_config,       \* apply_package: its `config`, the clone it inserts into
  pkg_secrets,      \* apply_package: its `secrets`, the clone it inserts into
  files,            \* apply_package / plan: the Vec<File> still to go through
  tasks,            \* apply_package / plan: the Vec<Script> still to go through
  context,          \* File::template: the render context it built last
  envs,             \* run_script_task: the entries it passed to .envs() last
  steps,            \* history: the steps of the call of apply_package in hand
  overridden,       \* history: a call replaced the value of a global key
  written,          \* the lines the last step wrote to the progress output
  twin_written,     \* the same step of a run on other secret values
  present,          \* the optional directories the packages of the run have
  package_files,    \* Package.files: group -> target root, as the manifest maps
  disk,             \* destination path -> content that File::apply left there
  tree,             \* the files directory: group -> relative paths of its files
  content           \* parse_config: the text it is given

\* get_all_packages called a second time
twice == <<previous>>
\* load_all_config
loader == <<listing, at, output, errs>>
\* the maps, files and tasks of a run
data == <<extent, config, secrets, from_config, from_secrets, pkg_config,
          pkg_secrets, files, tasks, context, envs, steps, overridden,
          written, twin_written>>

\* the directories and texts the functions of core/ are called on
places == <<present, package_files, disk, tree, content>>

\* what no step of get_all_packages and of the retry loop writes
world == <<mode, dirs, manifest, twice, loader, data, places>>
ctl == <<pc, result, error>>
resolver == <<packages_lookup, depgraph, satisfied, packages>>
loop == <<idx, retries, limit, files_left, tasks_left>>
hist == <<attempts, failures, sleeps, touched, succeeded, exhausted,
          fileApplied, taskRan, spawned>>
vars == <<world, ctl, resolver, loop, hist>>

(* ------------------------------ inputs -------------------------------- *)
\* the ids a needs list may name: the directories and one absent package
Ids(n) == DirNames(n) \cup {Ghost}

NeedsLists(n) == {s \in SUBSET Ids(n) : Cardinality(s) <= MaxNeeds}

\* package.yml of one directory: it fails to load, or it loads with a needs list
Manifests(n) ==
  {[ok |-> FALSE, needs |-> {}]} \cup {[ok |-> TRUE, needs |-> s] : s \in NeedsLists(n)}

Idle ==
  /\ result = "none"
  /\ error = <<"", "">>
  /\ packages_lookup = EmptyMap
  /\ depgraph = [nodes |-> {}, dependencies |-> EmptyMap]
  /\ satisfied = {}
  /\ packages = <<>>
  /\ idx = 0
  /\ retries = 0
  /\ limit = 0
  /\ files_left = 0
  /\ tasks_left = 0
  /\ attempts = 0
  /\ failures = 0
  /\ sleeps = 0
  /\ touched = {}
  /\ succeeded = {}
  /\ exhausted = {}
  /\ fileApplied = {}
  /\ taskRan = {}
  /\ spawned = {}
  /\ previous = None
  /\ at = 0
  /\ output = EmptyMap
  /\ errs = <<>>
  /\ from_config = EmptyMap
  /\ from_secrets = EmptyMap
  /\ pkg_config = EmptyMap
  /\ pkg_secrets = EmptyMap
  /\ files = <<>>
  /\ tasks = <<>>
  /\ context = None
  /\ envs = None
  /\ steps = <<>>
  /\ overridden = FALSE
  /\ written = <<>>
  /\ twin_written = <<>>
  /\ disk = EmptyMap

\* no files directory, no manifest mapping and no text in hand
NoPlaces ==
  /\ package_files = EmptyMap
  /\ tree = EmptyMap
  /\ content = <<>>

\* config, secrets, files and scripts: the directories a package may lack
OptionalDirs == {"config", "secrets", "files", "scripts"}

\* a run whose sources define nothing, and no config directory in hand
NoData ==
  /\ listing = <<>>
  /\ extent = [keys |-> {}, paths |-> <<>>, scripts |-> <<>>, files |-> 0, tasks |-> 0,
               limits |-> 0..MaxLimit]
  /\ present = OptionalDirs
  /\ NoPlaces
  /\ config = EmptyMap
  /\ secrets = EmptyMap

\* a plan or apply run on a configuration directory
Init ==
  /\ mode \in {"plan", "apply"}
  /\ \E n \in 0..MaxRunPackages :
       /\ dirs = DirNames(n)
       /\ manifest \in [DirNames(n) -> Manifests(n)]
  /\ pc = "config"
  /\ Idle
  /\ NoData

\* a call of get_all_packages on a packages directory
InitResolve ==
  /\ mode = "resolve"
  /\ \E n \in 0..MaxPackages :
       /\ dirs = DirNames(n)
       /\ manifest \in [DirNames(n) -> Manifests(n)]
  /\ pc = "load"
  /\ Idle
  /\ NoData


(* ------------------- solvent::DepGraph, as package.rs uses it --------- *)
\* DepGraph::register_node: the node is added once
RegisterNode(g, n) == [g EXCEPT !.nodes = @ \cup {n}]

\* the dependency set of a node; a node without an entry has none
DepsOf(g, n) == IF n \in DOMAIN g.dependencies THEN g.dependencies[n] ELSE {}

\* DepGraph::register_dependencies(node, depends_on): node and every
\* dependency become nodes, the dependencies join the node's set
RegisterDependencies(g, n, ds) ==
  [nodes |-> g.nodes \cup {n} \cup ds,
   dependencies |-> MapPut(g.dependencies, n, DepsOf(g, n) \cup ds)]

\* DepGraph::register_dependency(node, depends_on)
RegisterDependency(g, n, d) == RegisterDependencies(g, n, {d})

\* the body of `for (id, package) in packages_lookup.iter()`
RegisterPackage(g, id, needs) ==
  RegisterDependency(RegisterDependencies(RegisterNode(g, id), id, needs), Complete, id)

\* the whole loop; the registrations commute, so any iteration order of the
\* HashMap builds the same graph
RECURSIVE RegisterAll(_, _, _)
RegisterAll(g, ids, lookup) ==
  IF ids = {} THEN g
  ELSE LET id == CHOOSE x \in ids : TRUE
       IN RegisterAll(RegisterPackage(g, id, lookup[id]), ids \ {id}, lookup)

CycleDetected == [err |-> TRUE, node |-> "CycleDetected"]

Found(n) == [err |-> FALSE, node |-> n]

\* a variant that takes a node met again on the current path for a leaf
RevisitAsLeaf(pos) == {Found(pos)}

\* what get_next_dependency answers for a node already on the current path
Revisit(pos) == {CycleDetected}

\* DepGraphIterator::get_next_dependency(pos): every answer it can give.
\* It descends into the first unsatisfied dependency in the iteration order
\* of a std HashSet, which is unspecified: any unsatisfied dependency can
\* be that first one.
RECURSIVE GetNextDependency(_, _, _, _)
GetNextDependency(g, pos, curpath, sat) ==
  IF pos \in curpath THEN Revisit(pos)
  ELSE LET unsat == DepsOf(g, pos) \ sat
       IN IF unsat = {} THEN {Found(pos)}
          ELSE UNION {GetNextDependency(g, n, curpath \cup {pos}, sat) : n \in unsat}

(* --------------------------- get_all_packages ------------------------- *)
\* get_all_packages returns Err(e): `?` hands it on to run's caller
Fail(kind, subject) ==
  /\ pc' = "done"
  /\ result' = "Err"
  /\ error' = <<kind, subject>>

\* a variant that drops the manifests that fail to load
LoadAllSkipping(ds) ==
  {[ok |-> TRUE,
    lookup |-> [d \in {x \in ds : manifest[x].ok} |-> manifest[d].needs],
    at |-> ""]}

\* package.rs 63-90, what the loop over the directory listing ends with:
\* every manifest loaded, or Err of the first manifest (in listing order,
\* which is any order) that fails to load
LoadAll(ds) ==
  IF \A d \in ds : manifest[d].ok
  THEN {[ok |-> TRUE, lookup |-> [d \in ds |-> manifest[d].needs], at |-> ""]}
  ELSE {[ok |-> FALSE, lookup |-> EmptyMap, at |-> d] : d \in {x \in ds : ~manifest[x].ok}}

\* package.rs 63-90
LoadPackages ==
  /\ pc = "load"
  /\ \E out \in LoadAll(dirs) :
       /\ packages_lookup' = out.lookup
       /\ \/ /\ out.ok
             /\ pc' = "register"
             /\ UNCHANGED <<result, error>>
          \/ /\ ~out.ok
             /\ Fail("manifest", out.at)
  /\ UNCHANGED <<world, depgraph, satisfied, packages, loop, hist>>

\* package.rs 92-96
RegisterPackages ==
  /\ pc = "register"
  /\ depgraph' = RegisterAll(depgraph, DOMAIN packages_lookup, packages_lookup)
  /\ pc' = "order"
  /\ UNCHANGED <<world, result, error, packages_lookup, satisfied, packages, loop, hist>>

\* package.rs 98-101: dependencies_of(&"__complete") fails with NoSuchNode
\* when the node was never registered
DependenciesOf ==
  /\ pc = "order"
  /\ \/ /\ Complete \in depgraph.nodes
        /\ satisfied' = {}
        /\ pc' = "iterate"
        /\ UNCHANGED <<result, error>>
     \/ /\ Complete \notin depgraph.nodes
        /\ Fail("graph", "NoSuchNode")
        /\ UNCHANGED satisfied
  /\ UNCHANGED <<world, packages_lookup, depgraph, packages, loop, hist>>

\* a variant that passes over a node that packages_lookup does not hold
CollectKnown(node) ==
  IF node # Complete /\ node \in DOMAIN packages_lookup
  THEN /\ packages' = Append(packages, node)
       /\ UNCHANGED <<pc, result, error>>
  ELSE UNCHANGED <<pc, result, error, packages>>

\* package.rs 111-120: what the loop body does with a node of the order
Collect(node) ==
  IF node = Complete
  THEN UNCHANGED <<pc, result, error, packages>>
  ELSE IF node \in DOMAIN packages_lookup
       THEN /\ packages' = Append(packages, node)
            /\ UNCHANGED <<pc, result, error>>
       ELSE /\ Fail("missing", node)
            /\ UNCHANGED packages

\* package.rs 105-121: one turn of `for node in order`, that is one call of
\* DepGraphIterator::next and the loop body on what it yields
OrderNext ==
  /\ pc = "iterate"
  /\ Complete \notin satisfied
  /\ \E r \in GetNextDependency(depgraph, Complete, {}, satisfied) :
       \/ /\ r.err
          /\ Fail("graph", r.node)
          /\ UNCHANGED <<satisfied, packages>>
       \/ /\ ~r.err
          /\ satisfied' = satisfied \cup {r.node}
          /\ Collect(r.node)
  /\ UNCHANGED <<world, packages_lookup, depgraph, loop, hist>>

\* package.rs 123: the iterator is exhausted, Ok(packages)
OrderDone ==
  /\ pc = "iterate"
  /\ Complete \in satisfied
  /\ \/ /\ mode = "resolve"
        /\ pc' = "done"
        /\ result' = "Ok"
     \/ /\ mode # "resolve"
        /\ pc' = "loop"
        /\ UNCHANGED result
  /\ UNCHANGED <<world, error, resolver, loop, hist>>

GetAllPackages ==
  \/ LoadPackages
  \/ RegisterPackages
  \/ DependenciesOf
  \/ OrderNext
  \/ OrderDone

SpecResolve == InitResolve /\ [][GetAllPackages]_vars


(* ------------------------- load_all_config ---------------------------- *)
\* config.rs 14-44, seen from the caller: whether an interpreter was started
\* for a script source (.ps1, .sh, .bat, .cmd) and whether a map came back
ConfigOutcomes == [spawn : BOOLEAN, ok : BOOLEAN]

Spawn(o) == IF o.spawn THEN {"config_script"} ELSE {}

\* apply.rs 49 and plan.rs 43: the global config directory
LoadGlobalConfig ==
  /\ pc = "config"
  /\ \E o \in ConfigOutcomes :
       /\ spawned' = spawned \cup Spawn(o)
       /\ \/ /\ o.ok
             /\ pc' = "secrets"
             /\ UNCHANGED <<result, error>>
          \/ /\ ~o.ok
             /\ Fail("config", "config")
  /\ UNCHANGED <<world, resolver, loop, attempts, failures, sleeps, touched,
                 succeeded, exhausted, fileApplied, taskRan>>

\* apply.rs 54 and plan.rs 48: the global secrets directory
LoadGlobalSecrets ==
  /\ pc = "secrets"
  /\ \E o \in ConfigOutcomes :
       /\ spawned' = spawned \cup Spawn(o)
       /\ \/ /\ o.ok
             /\ pc' = "load"
             /\ UNCHANGED <<result, error>>
          \/ /\ ~o.ok
             /\ Fail("config", "secrets")
  /\ UNCHANGED <<world, resolver, loop, attempts, failures, sleeps, touched,
                 succeeded, exhausted, fileApplied, taskRan>>

(* --------------------------- ApplyCommand::run ------------------------ *)
\* the package in hand
Cur == packages[idx]

\* u8 addition
IncU8(x) == (x + 1) % U8Modulus

\* the history counters stop counting at MaxAttempts
Count(x) == Min(x + 1, MaxAttempts)

\* apply.rs 61, 62 and 77: `for package in packages`, `let mut retries = 0`,
\* and Ok(0) after the last package
ForNext ==
  /\ pc = "loop"
  /\ mode = "apply"
  /\ \/ /\ idx < Len(packages)
        /\ idx' = idx + 1
        /\ retries' = 0
        /\ limit' \in extent.limits
        /\ attempts' = 0
        /\ failures' = 0
        /\ sleeps' = 0
        /\ pc' = "while"
        /\ UNCHANGED <<result, files_left, tasks_left>>
     \/ /\ idx = Len(packages)
        /\ pc' = "done"
        /\ result' = "Ok"
        /\ UNCHANGED <<loop, attempts, failures, sleeps>>
  /\ UNCHANGED <<world, error, resolver, touched, succeeded, exhausted,
                 fileApplied, taskRan, spawned>>

\* apply.rs 63: the condition of the while loop
LoopCondition == retries <= limit

\* apply.rs 63-64: the loop goes round, calling apply_package, or ends
While ==
  /\ pc = "while"
  /\ \/ /\ LoopCondition
        /\ pc' = "pkg_config"
        /\ attempts' = Count(attempts)
     \/ /\ ~LoopCondition
        /\ pc' = "loop"
        /\ UNCHANGED attempts
  /\ UNCHANGED <<world, result, error, resolver, loop, failures, sleeps, touched,
                 succeeded, exhausted, fileApplied, taskRan, spawned>>

\* a step of apply_package returns Err through `?`: its locals are dropped
AttemptFails ==
  /\ pc' = "attempt_err"
  /\ files_left' = 0
  /\ tasks_left' = 0

\* apply.rs 89-93: package.get_config()
PkgConfig ==
  /\ pc = "pkg_config"
  /\ touched' = touched \cup {Cur}
  /\ \E o \in ConfigOutcomes :
       /\ spawned' = spawned \cup Spawn(o)
       /\ \/ /\ o.ok
             /\ pc' = "pkg_secrets"
             /\ UNCHANGED <<files_left, tasks_left>>
          \/ /\ ~o.ok
             /\ AttemptFails
  /\ UNCHANGED <<world, result, error, resolver, idx, retries, limit, attempts,
                 failures, sleeps, succeeded, exhausted, fileApplied, taskRan>>

\* apply.rs 95-99: package.get_secrets()
PkgSecrets ==
  /\ pc = "pkg_secrets"
  /\ \E o \in ConfigOutcomes :
       /\ spawned' = spawned \cup Spawn(o)
       /\ \/ /\ o.ok
             /\ pc' = "pkg_files"
             /\ UNCHANGED <<files_left, tasks_left>>
          \/ /\ ~o.ok
             /\ AttemptFails
  /\ UNCHANGED <<world, result, error, resolver, idx, retries, limit, attempts,
                 failures, sleeps, touched, succeeded, exhausted, fileApplied, taskRan>>

\* apply.rs 102: package.get_files()
GetFiles ==
  /\ pc = "pkg_files"
  /\ \/ \E n \in 0..MaxFiles :
          /\ files_left' = n
          /\ pc' = "files"
          /\ UNCHANGED tasks_left
     \/ AttemptFails
  /\ UNCHANGED <<world, result, error, resolver, idx, retries, limit, hist>>

\* apply.rs 103-117: one turn of `for file in files`, file.apply(..)?
ApplyFile ==
  /\ pc = "files"
  /\ files_left > 0
  /\ fileApplied' = fileApplied \cup {Cur}
  /\ \/ /\ files_left' = files_left - 1
        /\ UNCHANGED <<pc, tasks_left>>
     \/ AttemptFails
  /\ UNCHANGED <<world, result, error, resolver, idx, retries, limit, attempts,
                 failures, sleeps, touched, succeeded, exhausted, taskRan, spawned>>

\* apply.rs 119: package.get_tasks(), after the last file
GetTasks ==
  /\ pc = "files"
  /\ files_left = 0
  /\ \/ \E n \in 0..MaxTasks :
          /\ tasks_left' = n
          /\ pc' = "tasks"
          /\ UNCHANGED files_left
     \/ AttemptFails
  /\ UNCHANGED <<world, result, error, resolver, idx, retries, limit, hist>>

\* script.rs 51-77, seen from the caller: Script::run starts the interpreter
\* of a supported extension and fails on a non-zero exit, or fails on the
\* extension before it starts anything
TaskOutcomes == {o \in [spawn : BOOLEAN, ok : BOOLEAN] : o.ok => o.spawn}

\* apply.rs 120-123: one turn of `for task in tasks`, task.run(..)?
RunTask ==
  /\ pc = "tasks"
  /\ tasks_left > 0
  /\ taskRan' = taskRan \cup {Cur}
  /\ \E o \in TaskOutcomes :
       /\ spawned' = spawned \cup (IF o.spawn THEN {"task"} ELSE {})
       /\ \/ /\ o.ok
             /\ tasks_left' = tasks_left - 1
             /\ UNCHANGED <<pc, files_left>>
          \/ /\ ~o.ok
             /\ AttemptFails
  /\ UNCHANGED <<world, result, error, resolver, idx, retries, limit, attempts,
                 failures, sleeps, touched, succeeded, exhausted, fileApplied>>

\* apply.rs 125 and 65: apply_package returns Ok(()), the arm `Ok(_) => {}`
ApplyOk ==
  /\ pc = "tasks"
  /\ tasks_left = 0
  /\ succeeded' = succeeded \cup {Cur}
  /\ pc' = "while"
  /\ UNCHANGED <<world, result, error, resolver, loop, attempts, failures, sleeps,
                 touched, exhausted, fileApplied, taskRan, spawned>>

\* a variant that returns the error once the limit is exceeded
GiveUpPastLimit(r) == limit < r

\* apply.rs 68: the test that returns the error to run's caller
GiveUp(r) == limit >= r

\* apply.rs 66-70: the arm `Err(err)`
ApplyErr ==
  /\ pc = "attempt_err"
  /\ retries' = IncU8(retries)
  /\ failures' = Count(failures)
  /\ exhausted' = IF failures' > limit /\ Cur \notin succeeded
                  THEN exhausted \cup {Cur} ELSE exhausted
  /\ \/ /\ GiveUp(retries')
        /\ Fail("step", Cur)
     \/ /\ ~GiveUp(retries')
        /\ pc' = "sleep"
        /\ UNCHANGED <<result, error>>
  /\ UNCHANGED <<world, resolver, idx, limit, files_left, tasks_left, attempts,
                 sleeps, touched, succeeded, fileApplied, taskRan, spawned>>

\* apply.rs 71: std::thread::sleep(package.retry.delay.into())
Sleep ==
  /\ pc = "sleep"
  /\ sleeps' = Count(sleeps)
  /\ pc' = "while"
  /\ UNCHANGED <<world, result, error, resolver, loop, attempts, failures, touched,
                 succeeded, exhausted, fileApplied, taskRan, spawned>>

(* --------------------------- PlanCommand::run ------------------------- *)
\* plan.rs 55 and 83: `for package in packages`, and Ok(0) after the last
PlanNext ==
  /\ pc = "loop"
  /\ mode = "plan"
  /\ \/ /\ idx < Len(packages)
        /\ idx' = idx + 1
        /\ files_left' = 0
        /\ tasks_left' = 0
        /\ pc' = "plan_config"
        /\ UNCHANGED result
     \/ /\ idx = Len(packages)
        /\ pc' = "done"
        /\ result' = "Ok"
        /\ UNCHANGED <<idx, files_left, tasks_left>>
  /\ UNCHANGED <<world, error, resolver, retries, limit, hist>>

\* plan.rs 60-63: package.get_config()
PlanConfig ==
  /\ pc = "plan_config"
  /\ touched' = touched \cup {Cur}
  /\ \E o \in ConfigOutcomes :
       /\ spawned' = spawned \cup Spawn(o)
       /\ \/ /\ o.ok
             /\ pc' = "plan_secrets"
             /\ UNCHANGED <<result, error>>
          \/ /\ ~o.ok
             /\ Fail("step", Cur)
  /\ UNCHANGED <<world, resolver, loop, attempts, failures, sleeps, succeeded,
                 exhausted, fileApplied, taskRan>>

\* plan.rs 65-68: package.get_secrets()
PlanSecrets ==
  /\ pc = "plan_secrets"
  /\ \E o \in ConfigOutcomes :
       /\ spawned' = spawned \cup Spawn(o)
       /\ \/ /\ o.ok
             /\ pc' = "plan_files"
             /\ UNCHANGED <<result, error>>
          \/ /\ ~o.ok
             /\ Fail("step", Cur)
  /\ UNCHANGED <<world, resolver, loop, attempts, failures, sleeps, touched,
                 succeeded, exhausted, fileApplied, taskRan>>

\* a variant that applies the files it lists
PlanFilesApplying ==
  /\ pc = "plan_files"
  /\ \/ \E n \in 0..MaxFiles :
          /\ files_left' = n
          /\ fileApplied' = IF n > 0 THEN fileApplied \cup {Cur} ELSE fileApplied
          /\ pc' = "plan_tasks"
          /\ UNCHANGED <<result, error>>
     \/ /\ Fail("step", Cur)
        /\ UNCHANGED <<files_left, fileApplied>>
  /\ UNCHANGED <<world, resolver, idx, retries, limit, tasks_left, attempts, failures,
                 sleeps, touched, succeeded, exhausted, taskRan, spawned>>

\* plan.rs 71-75: package.get_files() and one line of output per file
PlanFiles ==
  /\ pc = "plan_files"
  /\ \/ \E n \in 0..MaxFiles :
          /\ files_left' = n
          /\ pc' = "plan_tasks"
          /\ UNCHANGED <<result, error>>
     \/ /\ Fail("step", Cur)
        /\ UNCHANGED files_left
  /\ UNCHANGED <<world, resolver, idx, retries, limit, tasks_left, hist>>

\* plan.rs 77-80: package.get_tasks() and one line of output per task
PlanTasks ==
  /\ pc = "plan_tasks"
  /\ \/ \E n \in 0..MaxTasks :
          /\ tasks_left' = n
          /\ pc' = "loop"
          /\ UNCHANGED <<result, error>>
     \/ /\ Fail("step", Cur)
        /\ UNCHANGED tasks_left
  /\ UNCHANGED <<world, resolver, idx, retries, limit, files_left, hist>>

(* --------------------------- specifications --------------------------- *)
Next ==
  \/ LoadGlobalConfig
  \/ LoadGlobalSecrets
  \/ LoadPackages
  \/ RegisterPackages
  \/ DependenciesOf
  \/ OrderNext
  \/ OrderDone
  \/ ForNext
  \/ While
  \/ PkgConfig
  \/ PkgSecrets
  \/ GetFiles
  \/ ApplyFile
  \/ GetTasks
  \/ RunTask
  \/ ApplyOk
  \/ ApplyErr
  \/ Sleep
  \/ PlanNext
  \/ PlanConfig
  \/ PlanSecrets
  \/ PlanFiles
  \/ PlanTasks

Spec == Init /\ [][Next]_vars

\* the program is one thread and each of its steps returns
FairSpec == Spec /\ WF_vars(Next)


(* ------------------- the maps, files and tasks of a run --------------- *)
\* what a run does with the values its sources hold. Which package is in
\* hand and how often it is attempted is the matter of ForNext .. Sleep
\* above; here the loop of run hands apply_package (or the body of plan's
\* loop) a package any number of times, all with the same global maps.

\* files of one package and tasks of one package, when their order is looked at
MaxCatalog == 2
MaxScripts == 2

\* the keys and the values of config and secret sources
KeyNames == {"HOST", "TOKEN"}
Values == {"x", "y"}

\* the text printed in the place of a secret's value
Mask == "******"

\* the task files of a package, in the lexicographic order of their names
ScriptNames == <<"10-first.sh", "20-second.sh", "30-third.sh">>

\* the relative paths of the files of a package
FilePaths == <<"etc/hosts.tpl", "etc/motd", "etc/issue">>

\* HashMap<String, String> over a set of keys
Maps(K) == UNION {[D -> Values] : D \in SUBSET K}

\* the orders in which the entries of a std HashMap can be iterated
Orders(S) == {s \in [1..Cardinality(S) -> S] : Range(s) = S}

\* HashMap::clone
Clone(m) == m

\* a variant that keeps the entry the map already holds
InsertMissing(m, from) ==
  [k \in DOMAIN m \cup DOMAIN from |-> IF k \in DOMAIN m THEN m[k] ELSE from[k]]

\* `for (key, val) in from { m.insert(key, val); }`
RECURSIVE InsertAll(_, _)
InsertAll(m, from) ==
  IF DOMAIN from = {} THEN m
  ELSE LET k == CHOOSE x \in DOMAIN from : TRUE
       IN InsertAll(MapPut(m, k, from[k]), [x \in DOMAIN from \ {k} |-> from[x]])

\* writeln!(output, " = config {key}={val}"), one line per entry
ConfigLines(m, order) == [i \in 1..Len(order) |-> <<"config", order[i], m[order[i]]>>]

\* a variant that prints the value of a secret
SecretLineInClear(key, val) == <<"secret", key, val>>

\* writeln!(output, " = secret {key}=******")
SecretLine(key, val) == <<"secret", key, Mask>>

SecretLines(m, order) == [i \in 1..Len(order) |-> SecretLine(order[i], m[order[i]])]

\* the secret maps that differ from m in values only
Twins(m) == [DOMAIN m -> Values]

\* file.rs 86: a file is a template when its name ends with ".tpl"
IsTemplate(path) == path = "etc/hosts.tpl"

\* writeln!(output, "   + {} '{}'", if file.is_template { "template" } else { "file" }, ..)
FileLine(path) == <<IF IsTemplate(path) THEN "template" ELSE "file", path>>

\* writeln!(output, "   + task '{}'", &task.name)
TaskLine(name) == <<"task", name>>

\* writeln!(output, " + package '{}'", &package.id)
PackageLine == <<"package">>

\* what a directory of at most n of the names can be listed as: the
\* sequences of at most n names, none of them twice
Listings(names, n) ==
  UNION {{s \in [1..k -> Range(names)] : \A i, j \in 1..k : s[i] = s[j] => i = j} :
         k \in 0..Min(n, Len(names))}

\* the place of a task file name in the lexicographic order
Rank(name) == CHOOSE i \in 1..Len(ScriptNames) : ScriptNames[i] = name

\* a variant that leaves the tasks in the order of the directory listing
AsListed(l) == l

\* script.rs 42-45: .sorted_by_key(|s| s.name.clone())
RECURSIVE SortedByKey(_)
SortedByKey(l) ==
  IF l = <<>> THEN <<>>
  ELSE LET i == CHOOSE x \in 1..Len(l) : \A y \in 1..Len(l) : Rank(l[x]) <= Rank(l[y])
       IN <<l[i]>> \o SortedByKey([j \in 1..(Len(l) - 1) |-> IF j < i THEN l[j] ELSE l[j + 1]])

\* a variant that inserts the config entries last
RenderContextConfigLast(c, s) == InsertAll(InsertAll(EmptyMap, s), c)

\* file.rs 132-139: the render context of a template
RenderContext(c, s) == InsertAll(InsertAll(EmptyMap, c), s)

\* script.rs 51 and 63-66, 85: Script::run hands run_script_task its `config`
\* parameter alone, and that map is what .envs() gets
TaskEnvs(c, s) == c

\* everything but the data of a run and the position of the program
beside_data == <<mode, dirs, manifest, twice, loader, places, resolver, loop, hist>>

\* one more entry of the history of the call in hand
Step(what, subject, ok) == Append(steps, [what |-> what, subject |-> subject, ok |-> ok])

\* the locals of apply_package (of the body of plan's loop) before its first step
FreshLocals ==
  /\ from_config' = EmptyMap
  /\ from_secrets' = EmptyMap
  /\ pkg_config' = EmptyMap
  /\ pkg_secrets' = EmptyMap
  /\ files' = <<>>
  /\ tasks' = <<>>
  /\ context' = None
  /\ envs' = None

\* nothing is written by the step
Silent ==
  /\ written' = <<>>
  /\ twin_written' = <<>>

\* apply.rs 49-52 and plan.rs 43-46: the global config map and its lines
RunConfig ==
  /\ pc = "config"
  /\ \/ \E m \in Maps(extent.keys) :
          /\ config' = m
          /\ \E o \in Orders(DOMAIN m) : written' = ConfigLines(m, o)
          /\ \E o \in Orders(DOMAIN m) : twin_written' = ConfigLines(m, o)
          /\ pc' = "secrets"
          /\ UNCHANGED <<result, error>>
     \/ /\ Fail("config", "config")
        /\ Silent
        /\ UNCHANGED config
  /\ UNCHANGED <<beside_data, extent, secrets, from_config, from_secrets, pkg_config,
                 pkg_secrets, files, tasks, context, envs, steps, overridden>>

\* apply.rs 54-57 and plan.rs 48-51: the global secret map and its lines
RunSecrets ==
  /\ pc = "secrets"
  /\ \/ \E m \in Maps(extent.keys) :
          /\ secrets' = m
          /\ \E o \in Orders(DOMAIN m) : written' = SecretLines(m, o)
          /\ \E t \in Twins(m), o \in Orders(DOMAIN m) : twin_written' = SecretLines(t, o)
          /\ pc' = "call"
          /\ UNCHANGED <<result, error>>
     \/ /\ Fail("config", "secrets")
        /\ Silent
        /\ UNCHANGED secrets
  /\ UNCHANGED <<beside_data, extent, config, from_config, from_secrets, pkg_config,
                 pkg_secrets, files, tasks, context, envs, steps, overridden>>

\* apply.rs 61-64 and 86-87, plan.rs 55-58: the loop hands over a package
NextCall ==
  /\ pc = "call"
  /\ pc' = IF mode = "apply" THEN "pkg_config" ELSE "plan_config"
  /\ steps' = <<>>
  /\ FreshLocals
  /\ written' = <<PackageLine>>
  /\ twin_written' = <<PackageLine>>
  /\ UNCHANGED <<beside_data, result, error, extent, config, secrets, overridden>>

\* apply.rs 69 and 77, plan.rs 83: run returns
RunEnds ==
  /\ pc = "call"
  /\ pc' = "done"
  /\ \/ /\ result' = "Ok"
        /\ UNCHANGED error
     \/ /\ mode = "apply"
        /\ steps # <<>>
        /\ ~steps[Len(steps)].ok
        /\ result' = "Err"
        /\ error' = <<"step", steps[Len(steps)].what>>
  /\ Silent
  /\ UNCHANGED <<beside_data, extent, config, secrets, from_config, from_secrets,
                 pkg_config, pkg_secrets, files, tasks, context, envs, steps, overridden>>

\* a step of apply_package returns Err through `?`
CallFails(what, subject) ==
  /\ steps' = Step(what, subject, FALSE)
  /\ pc' = "call"

\* a variant where a directory that is not there is an error like any other
MayFailMissing(d) == TRUE

\* config.rs 15-17, file.rs 36-38, script.rs 23-25: a directory of the
\* package that is not there is answered before anything is read; only a
\* directory that is there can fail to list or to load
MayFail(d) == d \in present

\* config.rs 14-44: what load_all_config can return for directory d of the
\* package, the empty map alone when d is not there
MapsIn(d) == IF d \in present THEN Maps(extent.keys) ELSE {EmptyMap}

\* file.rs 23-65 and script.rs 22-46: what directory d of the package can be
\* listed as, the empty list alone when d is not there
ListingsIn(d, names, n) == IF d \in present THEN Listings(names, n) ELSE {<<>>}

\* a variant that inserts into the map of run
PackageConfigInPlace ==
  /\ pc = "pkg_config"
  /\ \/ \E p \in MapsIn("config") :
          /\ from_config' = p
          /\ config' = InsertAll(config, p)
          /\ pkg_config' = config'
          /\ overridden' = (overridden \/ \E k \in DOMAIN p \cap DOMAIN config : p[k] # config[k])
          /\ \E o \in Orders(DOMAIN p) : written' = ConfigLines(p, o)
          /\ \E o \in Orders(DOMAIN p) : twin_written' = ConfigLines(p, o)
          /\ steps' = Step("config", "", TRUE)
          /\ pc' = "pkg_secrets"
     \/ /\ MayFail("config")
        /\ CallFails("config", "")
        /\ Silent
        /\ UNCHANGED <<config, from_config, pkg_config, overridden>>
  /\ UNCHANGED <<beside_data, result, error, extent, secrets, from_secrets,
                 pkg_secrets, files, tasks, context, envs>>

\* apply.rs 89-93: the clone of the global config, the package's entries
\* inserted into it
PackageConfig ==
  /\ pc = "pkg_config"
  /\ \/ \E p \in MapsIn("config") :
          /\ from_config' = p
          /\ pkg_config' = InsertAll(Clone(config), p)
          /\ overridden' = (overridden \/ \E k \in DOMAIN p \cap DOMAIN config : p[k] # config[k])
          /\ \E o \in Orders(DOMAIN p) : written' = ConfigLines(p, o)
          /\ \E o \in Orders(DOMAIN p) : twin_written' = ConfigLines(p, o)
          /\ steps' = Step("config", "", TRUE)
          /\ pc' = "pkg_secrets"
     \/ /\ MayFail("config")
        /\ CallFails("config", "")
        /\ Silent
        /\ UNCHANGED <<from_config, pkg_config, overridden>>
  /\ UNCHANGED <<beside_data, result, error, extent, config, secrets, from_secrets,
                 pkg_secrets, files, tasks, context, envs>>

\* apply.rs 95-99: the same for the secrets
PackageSecrets ==
  /\ pc = "pkg_secrets"
  /\ \/ \E p \in MapsIn("secrets") :
          /\ from_secrets' = p
          /\ pkg_secrets' = InsertAll(Clone(secrets), p)
          /\ overridden' = (overridden \/ \E k \in DOMAIN p \cap DOMAIN secrets : p[k] # secrets[k])
          /\ \E o \in Orders(DOMAIN p) : written' = SecretLines(p, o)
          /\ \E t \in Twins(p), o \in Orders(DOMAIN p) : twin_written' = SecretLines(t, o)
          /\ steps' = Step("secrets", "", TRUE)
          /\ pc' = "pkg_files"
     \/ /\ MayFail("secrets")
        /\ CallFails("secrets", "")
        /\ Silent
        /\ UNCHANGED <<from_secrets, pkg_secrets, overridden>>
  /\ UNCHANGED <<beside_data, result, error, extent, config, secrets, from_config,
                 pkg_config, files, tasks, context, envs>>

\* apply.rs 102: package.get_files()
PackageFiles ==
  /\ pc = "pkg_files"
  /\ \/ \E l \in ListingsIn("files", extent.paths, extent.files) :
          /\ files' = l
          /\ pc' = "files"
          /\ UNCHANGED steps
     \/ /\ MayFail("files")
        /\ CallFails("get_files", "")
        /\ UNCHANGED files
  /\ Silent
  /\ UNCHANGED <<beside_data, result, error, extent, config, secrets, from_config,
                 from_secrets, pkg_config, pkg_secrets, tasks, context, envs, overridden>>

\* apply.rs 103-117: one turn of `for file in files`; file.rs 103-114: a
\* template builds its render context, a plain file is copied
FileApply ==
  /\ pc = "files"
  /\ files # <<>>
  /\ LET file == Head(files)
         built == IF IsTemplate(file)
                  THEN Some(RenderContext(pkg_config, pkg_secrets)) ELSE context
     IN /\ written' = <<FileLine(file)>>
        /\ twin_written' = <<FileLine(file)>>
        /\ \/ /\ files' = Tail(files)
              /\ context' = built
              /\ steps' = Step("file", file, TRUE)
              /\ UNCHANGED pc
           \/ /\ CallFails("file", file)
              /\ context' \in {context, built}
              /\ UNCHANGED files
  /\ UNCHANGED <<beside_data, result, error, extent, config, secrets, from_config,
                 from_secrets, pkg_config, pkg_secrets, tasks, envs, overridden>>

\* apply.rs 119: package.get_tasks(), after the last file; script.rs 22-46
PackageTasks ==
  /\ pc = "files"
  /\ files = <<>>
  /\ \/ \E l \in ListingsIn("scripts", extent.scripts, extent.tasks) :
          /\ tasks' = SortedByKey(l)
          /\ pc' = "tasks"
          /\ UNCHANGED steps
     \/ /\ MayFail("scripts")
        /\ CallFails("get_tasks", "")
        /\ UNCHANGED tasks
  /\ Silent
  /\ UNCHANGED <<beside_data, result, error, extent, config, secrets, from_config,
                 from_secrets, pkg_config, pkg_secrets, files, context, envs, overridden>>

\* apply.rs 120-123: one turn of `for task in tasks`; script.rs 51-77: the
\* interpreter is started with the environment, or the extension is refused
\* before anything is started
ScriptRun ==
  /\ pc = "tasks"
  /\ tasks # <<>>
  /\ LET task == Head(tasks)
     IN /\ written' = <<TaskLine(task)>>
        /\ twin_written' = <<TaskLine(task)>>
        /\ \/ /\ tasks' = Tail(tasks)
              /\ envs' = Some(TaskEnvs(pkg_config, pkg_secrets))
              /\ steps' = Step("task", task, TRUE)
              /\ UNCHANGED pc
           \/ /\ CallFails("task", task)
              /\ envs' \in {envs, Some(TaskEnvs(pkg_config, pkg_secrets))}
              /\ UNCHANGED tasks
  /\ UNCHANGED <<beside_data, result, error, extent, config, secrets, from_config,
                 from_secrets, pkg_config, pkg_secrets, files, context, overridden>>

\* apply.rs 125: Ok(()), after the last task
PackageOk ==
  /\ pc = "tasks"
  /\ tasks = <<>>
  /\ pc' = "call"
  /\ Silent
  /\ UNCHANGED <<beside_data, result, error, extent, config, secrets, from_config,
                 from_secrets, pkg_config, pkg_secrets, files, tasks, context, envs,
                 steps, overridden>>

\* plan.rs 60-63: the package's own config entries are printed
PlanPackageConfig ==
  /\ pc = "plan_config"
  /\ \/ \E p \in MapsIn("config") :
          /\ from_config' = p
          /\ \E o \in Orders(DOMAIN p) : written' = ConfigLines(p, o)
          /\ \E o \in Orders(DOMAIN p) : twin_written' = ConfigLines(p, o)
          /\ pc' = "plan_secrets"
          /\ UNCHANGED <<result, error>>
     \/ /\ MayFail("config")
        /\ Fail("step", "config")
        /\ Silent
        /\ UNCHANGED from_config
  /\ UNCHANGED <<beside_data, extent, config, secrets, from_secrets, pkg_config,
                 pkg_secrets, files, tasks, context, envs, steps, overridden>>

\* plan.rs 65-68: the package's own secret keys are printed
PlanPackageSecrets ==
  /\ pc = "plan_secrets"
  /\ \/ \E p \in MapsIn("secrets") :
          /\ from_secrets' = p
          /\ \E o \in Orders(DOMAIN p) : written' = SecretLines(p, o)
          /\ \E t \in Twins(p), o \in Orders(DOMAIN p) : twin_written' = SecretLines(t, o)
          /\ pc' = "plan_files"
          /\ UNCHANGED <<result, error>>
     \/ /\ MayFail("secrets")
        /\ Fail("step", "secrets")
        /\ Silent
        /\ UNCHANGED from_secrets
  /\ UNCHANGED <<beside_data, extent, config, secrets, from_config, pkg_config,
                 pkg_secrets, files, tasks, context, envs, steps, overridden>>

\* plan.rs 70-75: the files are listed, one line each
PlanPackageFiles ==
  /\ pc = "plan_files"
  /\ \/ \E l \in ListingsIn("files", extent.paths, extent.files) :
          /\ files' = l
          /\ written' = [i \in 1..Len(l) |-> FileLine(l[i])]
          /\ twin_written' = written'
          /\ pc' = "plan_tasks"
          /\ UNCHANGED <<result, error>>
     \/ /\ MayFail("files")
        /\ Fail("step", "get_files")
        /\ Silent
        /\ UNCHANGED files
  /\ UNCHANGED <<beside_data, extent, config, secrets, from_config, from_secrets,
                 pkg_config, pkg_secrets, tasks, context, envs, steps, overridden>>

\* plan.rs 77-80: the tasks are listed, one line each
PlanPackageTasks ==
  /\ pc = "plan_tasks"
  /\ \/ \E l \in ListingsIn("scripts", extent.scripts, extent.tasks) :
          /\ tasks' = SortedByKey(l)
          /\ written' = [i \in 1..Len(l) |-> TaskLine(tasks'[i])]
          /\ twin_written' = written'
          /\ pc' = "call"
          /\ UNCHANGED <<result, error>>
     \/ /\ MayFail("scripts")
        /\ Fail("step", "get_tasks")
        /\ Silent
        /\ UNCHANGED tasks
  /\ UNCHANGED <<beside_data, extent, config, secrets, from_config, from_secrets,
                 pkg_config, pkg_secrets, files, context, envs, steps, overridden>>

NextData ==
  \/ RunConfig
  \/ RunSecrets
  \/ NextCall
  \/ RunEnds
  \/ PackageConfig
  \/ PackageSecrets
  \/ PackageFiles
  \/ FileApply
  \/ PackageTasks
  \/ ScriptRun
  \/ PackageOk
  \/ PlanPackageConfig
  \/ PlanPackageSecrets
  \/ PlanPackageFiles
  \/ PlanPackageTasks

\* a run whose sources hold keys and values, on packages of one template
\* and one task at most
InitData ==
  /\ mode \in {"plan", "apply"}
  /\ dirs = {}
  /\ manifest = EmptyMap
  /\ pc = "config"
  /\ Idle
  /\ listing = <<>>
  /\ extent = [keys |-> KeyNames, paths |-> SubSeq(FilePaths, 1, 1),
               scripts |-> SubSeq(ScriptNames, 1, 1), files |-> MaxFiles, tasks |-> MaxTasks,
               limits |-> {}]
  /\ present = OptionalDirs
  /\ NoPlaces
  /\ config = EmptyMap
  /\ secrets = EmptyMap

SpecData == InitData /\ [][NextData]_vars

\* a run whose sources hold no key, on packages of several files and tasks
InitSteps ==
  /\ mode \in {"plan", "apply"}
  /\ dirs = {}
  /\ manifest = EmptyMap
  /\ pc = "config"
  /\ Idle
  /\ listing = <<>>
  /\ extent = [keys |-> {}, paths |-> FilePaths, scripts |-> ScriptNames,
               files |-> MaxCatalog, tasks |-> MaxScripts, limits |-> {}]
  /\ present = OptionalDirs
  /\ NoPlaces
  /\ config = EmptyMap
  /\ secrets = EmptyMap

SpecSteps == InitSteps /\ [][NextData]_vars


(* ------------------- get_all_packages, called again -------------------- *)
\* package.rs 62: a second call on the same directory starts from nothing,
\* what the first call returned is kept beside it
ResolveAgain ==
  /\ pc = "done"
  /\ previous = None
  /\ previous' = Some([result |-> result, packages |-> packages])
  /\ pc' = "load"
  /\ result' = "none"
  /\ error' = <<"", "">>
  /\ packages_lookup' = EmptyMap
  /\ depgraph' = [nodes |-> {}, dependencies |-> EmptyMap]
  /\ satisfied' = {}
  /\ packages' = <<>>
  /\ UNCHANGED <<mode, dirs, manifest, loader, data, places, loop, hist>>

SpecTwice == InitResolve /\ [][GetAllPackages \/ ResolveAgain]_vars

(* --------------------------- load_all_config -------------------------- *)
\* files of one config directory
MaxConfigFiles == 2

\* a file of a config directory: load_config fails on it, or gives entries
ConfigFiles ==
  {[ok |-> FALSE, entries |-> EmptyMap]} \cup {[ok |-> TRUE, entries |-> m] : m \in Maps(KeyNames)}

\* the directory listings, in the order read_dir gives the files
ConfigDirs == UNION {[1..n -> ConfigFiles] : n \in 0..MaxConfigFiles}

beside_loader == <<mode, dirs, manifest, twice, data, places, resolver, loop, hist>>

InitLoader ==
  /\ mode = "load_all_config"
  /\ dirs = {}
  /\ manifest = EmptyMap
  /\ pc = "exists"
  /\ Idle
  /\ listing \in ConfigDirs
  /\ extent = [keys |-> KeyNames, paths |-> <<>>, scripts |-> <<>>, files |-> 0, tasks |-> 0,
               limits |-> {}]
  /\ present = OptionalDirs
  /\ NoPlaces
  /\ config = EmptyMap
  /\ secrets = EmptyMap

\* config.rs 15-17: a directory that is not there gives the empty map
Exists ==
  /\ pc = "exists"
  /\ \/ /\ listing = <<>>
        /\ pc' = "done"
        /\ result' = "Ok"
     \/ /\ pc' = "read_dir"
        /\ UNCHANGED result
  /\ UNCHANGED <<beside_loader, error, loader>>

\* config.rs 19-32: dir.read_dir(), and `let mut output = HashMap::new()`
ReadDir ==
  /\ pc = "read_dir"
  /\ \/ /\ pc' = "collect"
        /\ UNCHANGED <<result, error>>
     \/ Fail("list", 0)
  /\ UNCHANGED <<beside_loader, loader>>

\* config.rs 34-38: one file of the iterator that collect() drains:
\* load_config, then the entries inserted into output or the error kept
LoadConfig ==
  /\ pc = "collect"
  /\ at < Len(listing)
  /\ at' = at + 1
  /\ \/ /\ listing[at'].ok
        /\ output' = InsertAll(output, listing[at'].entries)
        /\ UNCHANGED errs
     \/ /\ ~listing[at'].ok
        /\ errs' = Append(errs, at')
        /\ UNCHANGED output
  /\ UNCHANGED <<beside_loader, pc, result, error, listing>>

\* config.rs 40-43: `match errs.pop()`, Vec::pop takes the last element
PopError ==
  /\ pc = "collect"
  /\ at = Len(listing)
  /\ \/ /\ errs # <<>>
        /\ Fail("load", errs[Len(errs)])
        /\ errs' = SubSeq(errs, 1, Len(errs) - 1)
     \/ /\ errs = <<>>
        /\ pc' = "done"
        /\ result' = "Ok"
        /\ UNCHANGED <<error, errs>>
  /\ UNCHANGED <<beside_loader, listing, at, output>>

LoadAllConfig ==
  \/ Exists
  \/ ReadDir
  \/ LoadConfig
  \/ PopError

SpecLoadAllConfig == InitLoader /\ [][LoadAllConfig]_vars


(* ------------------------ the needs relation -------------------------- *)
\* Package.needs of a package directory
NeedsOf(d) == manifest[d].needs

AllManifestsLoad == \A d \in dirs : manifest[d].ok

RECURSIVE Closure(_)
Closure(S) ==
  LET T == S \cup UNION {NeedsOf(d) : d \in S \cap dirs}
  IN IF T = S THEN S ELSE Closure(T)

\* everything a package needs, directly or through other packages
TransitiveNeeds(p) == Closure(NeedsOf(p))

\* some package needs itself, directly or through other packages
Cyclic == \E d \in dirs : d \in TransitiveNeeds(d)

\* some needs entry names no package directory
MissingNeed == \E d \in dirs : ~(NeedsOf(d) \subseteq dirs)

\* the positions at which no package has been handed to plan or apply yet
Resolving == {"config", "secrets", "load", "register", "order", "iterate"}

\* every package once, each after all it needs
OrderedOnce(s) ==
  /\ Len(s) = Cardinality(dirs)
  /\ Range(s) = dirs
  /\ \A i \in 1..Len(s) : TransitiveNeeds(s[i]) \subseteq {s[j] : j \in 1..(i - 1)}

(* ------------------------------ claims -------------------------------- *)
\* C1: for every set of packages whose needs graph is acyclic and names only
\* existing packages, get_all_packages returns Ok with every package exactly
\* once, each after all of its transitive dependencies, and without the
\* synthetic node "__complete".
C1_ResolveReturnsEveryPackage ==
  (mode = "resolve" /\ pc = "done" /\ AllManifestsLoad /\ ~MissingNeed /\ ~Cyclic)
    => /\ result = "Ok"
       /\ OrderedOnce(packages)
       /\ Complete \notin Range(packages)


\* C2: in apply, a package that fails k times and then succeeds, with k at
\* most its retry limit, has its apply step executed exactly k+1 times.
C2_SuccessEndsTheRetries ==
  (mode = "apply" /\ idx > 0 /\ Cur \in succeeded /\ failures <= limit)
    => attempts = failures + 1

\* C3: in apply, a package that keeps failing is attempted exactly limit+1
\* times and the run then returns its error: the run does not return Ok
\* past such a package, and an error is returned only after limit+1 attempts.
C3_ExhaustedRetriesFailTheRun ==
  (mode = "apply" /\ pc = "done")
    => /\ result = "Ok" => exhausted = {}
       /\ (result = "Err" /\ error[1] = "step")
            => (attempts = limit + 1 /\ failures = limit + 1)

\* C4: every apply run terminates, given that every step of it returns.
C4_RunTerminates == <>(pc = "done")

\* C5: in apply, once a package has exhausted its retry limit, no step of
\* any other package is executed any more.
C5_NothingAfterExhaustion == [][exhausted # {} => touched' = touched]_vars

\* C6: in apply, no file or task of a package is executed before every
\* package that it transitively needs has completed an attempt successfully.
C6_NeedsSucceedFirst ==
  \A p \in fileApplied \cup taskRan : TransitiveNeeds(p) \subseteq succeeded

ResolutionFails ==
  /\ pc \in Resolving \cup {"done"}
  /\ pc = "done" => (result = "Err" /\ error[1] \in {"config", "graph", "missing"})
  /\ touched = {}

\* C8: when the needs graph has a cycle (a package that needs itself
\* included), get_all_packages returns a dependency error, no list, and no
\* step of any package is executed.
C8_CycleIsAnError == (AllManifestsLoad /\ Cyclic) => ResolutionFails

\* C8's case: apply on a package that needs itself, beside a sound package
\* that the order had already yielded, ended with the cycle error
C8_SelfNeedReported ==
  /\ mode = "apply"
  /\ pc = "done"
  /\ error = <<"graph", "CycleDetected">>
  /\ \E d \in dirs : d \in NeedsOf(d)
  /\ packages # <<>>

\* C9: when a needs entry names a package that is not loaded,
\* get_all_packages returns a user error, whatever the rest of the graph,
\* before any file is applied or any task is run.
C9_MissingNeedIsAnError ==
  (AllManifestsLoad /\ MissingNeed)
    => (ResolutionFails /\ fileApplied = {} /\ taskRan = {})

\* C9's case: apply on an acyclic graph with a needs entry for an absent
\* package, beside a sound package, ended with the error naming it
C9_MissingNeedReported ==
  /\ mode = "apply"
  /\ pc = "done"
  /\ error = <<"missing", Ghost>>
  /\ ~Cyclic
  /\ \E d \in dirs : NeedsOf(d) \subseteq dirs

\* C10: when a manifest fails to load, get_all_packages returns the error of
\* a failing manifest and no list; and no step of a package is executed, in
\* plan and in apply, unless the whole package set has been resolved.
C10_ResolutionIsAllOrNothing ==
  /\ ~AllManifestsLoad
       => /\ pc \in {"config", "secrets", "load", "done"}
          /\ packages = <<>>
          /\ pc = "done"
               => /\ result = "Err"
                  /\ error[1] \in {"config", "manifest"}
                  /\ error[1] = "manifest" => ~manifest[error[2]].ok
  /\ touched # {}
       => /\ pc \notin Resolving
          /\ AllManifestsLoad
          /\ Range(packages) = dirs

\* C10's case: one manifest failed to load beside one that loads, and the
\* run ended with the failing manifest's error
C10_ManifestErrorReturned ==
  /\ pc = "done"
  /\ error[1] = "manifest"
  /\ \E d \in dirs : manifest[d].ok
  /\ packages_lookup = EmptyMap

(* ------------------------- claims on the maps -------------------------- *)
\* G overridden by P: P's value for every key of P, G's for every key of G
\* alone, and no other key
Overridden(G, P) ==
  [k \in DOMAIN G \cup DOMAIN P |-> IF k \in DOMAIN P THEN P[k] ELSE G[k]]

\* C11: for every global map G and package map P, config and secrets alike,
\* the map that the files and tasks of a package receive is G overridden by P.
C11_PackageOverridesGlobal ==
  (mode = "apply" /\ pc \in {"pkg_files", "files", "tasks"})
    => /\ pkg_config = Overridden(config, from_config)
       /\ pkg_secrets = Overridden(secrets, from_secrets)

\* C11's case: a file was applied with maps in which the package replaced
\* the global value of one key and left another global key alone
C11_FileGotOverriddenMaps ==
  /\ mode = "apply"
  /\ pc = "files"
  /\ \E i \in 1..Len(steps) : steps[i].what = "file" /\ steps[i].ok
  /\ \E k \in DOMAIN config \cap DOMAIN from_config : config[k] # from_config[k]
  /\ DOMAIN config \ DOMAIN from_config # {}
  /\ \E k \in DOMAIN secrets \cap DOMAIN from_secrets : secrets[k] # from_secrets[k]

\* C12: the global config and secret maps are never changed by applying a
\* package: after any sequence of attempts they are what run loaded.
C12_GlobalMapsNeverChange ==
  [][pc \notin {"config", "secrets"} => (config' = config /\ secrets' = secrets)]_vars

\* C12's case: after a call that replaced the value of a global key, a later
\* call on a package without config of its own got the global map as loaded
C12_LaterCallSeesGlobalMap ==
  /\ mode = "apply"
  /\ overridden
  /\ pc = "pkg_secrets"
  /\ from_config = EmptyMap
  /\ config # EmptyMap
  /\ pkg_config = config

\* C13: two resolutions of the same package set and needs relation return
\* the same sequence, whatever the iteration order of the maps.
C13_SameOrderEveryTime ==
  (pc = "done" /\ previous # None /\ result = "Ok" /\ previous[1].result = "Ok")
    => packages = previous[1].packages

\* C14: every task run by apply gets in its environment every entry of the
\* package's merged config map and every entry of its merged secret map (for
\* a key of both, the secret's).
C14_TaskGetsConfigAndSecrets ==
  envs # None
    => LET e == envs[1]
       IN /\ \A k \in DOMAIN pkg_config \ DOMAIN pkg_secrets :
               k \in DOMAIN e /\ e[k] = pkg_config[k]
          /\ \A k \in DOMAIN pkg_secrets :
               k \in DOMAIN e /\ e[k] = pkg_secrets[k]

\* C15: the render context of a template is the union of the merged config
\* map and the merged secret map, with the secret's value for a key of both.
C15_SecretsWinInTheContext ==
  context # None => context[1] = Overridden(pkg_config, pkg_secrets)

\* C15's case: a template was rendered with a key that config and secrets
\* both define, with different values
C15_TemplateWithACollision ==
  /\ context # None
  /\ \E i \in 1..Len(steps) : steps[i].what = "file" /\ IsTemplate(steps[i].subject) /\ steps[i].ok
  /\ \E k \in DOMAIN pkg_config \cap DOMAIN pkg_secrets : pkg_config[k] # pkg_secrets[k]

FirstFailing == CHOOSE i \in 1..Len(listing) : ~listing[i].ok /\ \A j \in 1..(i - 1) : listing[j].ok

\* C17: load_all_config on a directory in which a file fails to load returns
\* an error and no map, and the error is that of the first failing file in
\* the order of the directory listing.
C17_FirstErrorWins ==
  (mode = "load_all_config" /\ pc = "done" /\ at = Len(listing)
     /\ \E i \in 1..Len(listing) : ~listing[i].ok)
    => (result = "Err" /\ error = <<"load", FirstFailing>>)

\* the place of a step in the order of apply_package
Phase(what) ==
  CASE what = "config" -> 1
    [] what = "secrets" -> 2
    [] what = "get_files" -> 3
    [] what = "file" -> 4
    [] what = "get_tasks" -> 5
    [] what = "task" -> 6

\* the steps of a call so far: config, secrets, files, tasks, the tasks by
\* name, nothing after a step that failed, no task before the last file
StepsInOrder ==
  /\ \A i \in 1..(Len(steps) - 1) : steps[i].ok
  /\ Len(steps) >= 1 => steps[1].what = "config"
  /\ Len(steps) >= 2 => steps[2].what = "secrets"
  /\ \A i \in 3..Len(steps) : steps[i].what \notin {"config", "secrets"}
  /\ \A i, j \in 1..Len(steps) :
       i < j => /\ Phase(steps[i].what) <= Phase(steps[j].what)
                /\ (steps[i].what = "task" /\ steps[j].what = "task")
                     => Rank(steps[i].subject) < Rank(steps[j].subject)
  /\ (\E i \in 1..Len(steps) : steps[i].what \in {"get_tasks", "task"}) => files = <<>>

\* the file applied is the first of the files left, the task run is the
\* first of the tasks left
FirstOfTheRest ==
  (mode = "apply" /\ steps' # steps /\ steps' # <<>>)
    => LET s == steps'[Len(steps')]
       IN /\ s.what = "file" => (files # <<>> /\ s.subject = Head(files))
          /\ s.what = "task" => (tasks # <<>> /\ s.subject = Head(tasks))

\* C18: within one attempt the steps run in a fixed order: package config,
\* package secrets, every file in the order of the file list, then every
\* task in the lexicographic order of its name; the first step that fails
\* ends the attempt, so that no later file or task of it is executed.
C18_StepsOfAnAttemptInOrder == []StepsInOrder /\ [][FirstOfTheRest]_vars

\* C18's case: a call applied two files and then ran two tasks
C18_TwoFilesThenTwoTasks ==
  /\ mode = "apply"
  /\ Len(steps) = 6
  /\ steps[6].ok
  /\ steps[4].what = "file"
  /\ steps[5].what = "task"

(* ---------------------- claims on the retry loop ----------------------- *)
\* C19: the retry delay is waited exactly once between a failed attempt and
\* the next attempt of the same package and at no other time: when the loop
\* is done with a package, its waits are its attempts minus one.
C19_OneWaitBetweenAttempts ==
  (mode = "apply" /\ idx > 0 /\ pc \in {"loop", "done"} /\ attempts < MaxAttempts)
    => sleeps + 1 = attempts

\* C20: plan and apply go through the same input in the same way: plan
\* reports every package once, with its files and tasks, and apply, when
\* every step succeeds at the first attempt, performs that sequence, so it
\* applies no package a second time.
C20_ApplyPerformsWhatPlanReports ==
  (mode = "apply" /\ idx > 0 /\ failures = 0) => attempts <= 1

(* ------------------------- file.rs: get_files -------------------------- *)
\* the depth of the deepest file below a group directory
MaxDepth == 3

\* the files below one group directory
MaxTreeFiles == 3

\* the names an entry of a directory can have, in the order of their bytes
EntryNames == <<"a", "a.tpl">>

\* the groups of a files directory
GroupNames == <<"etc", "opt">>

\* p is a directory on the way to q
IsPrefix(p, q) == Len(p) < Len(q) /\ SubSeq(q, 1, Len(p)) = p

\* the relative paths of at most k files, none deeper than d, no file being
\* a directory of another one
RECURSIVE Trees(_, _)
Trees(d, k) ==
  IF k = 0 THEN {{}}
  ELSE LET Candidates == UNION {[1..n -> Range(EntryNames)] : n \in 1..d}
           Smaller == Trees(d, k - 1)
           Fits(t) == {p \in Candidates : \A q \in t : ~IsPrefix(p, q) /\ ~IsPrefix(q, p)}
       IN Smaller \cup UNION {{t \cup {p} : p \in Fits(t)} : t \in Smaller}

\* the place of an entry name in the order of OsStr
NameRank(name) == CHOOSE i \in 1..Len(EntryNames) : EntryNames[i] = name

\* the names of the entries of directory p of the tree t
Entries(t, p) == {q[Len(p) + 1] : q \in {x \in t : IsPrefix(p, x)}}

\* std::fs::read_dir below WalkDir: the entries of p, as the listing o has them
ReadDirOf(t, p, o) ==
  LET RECURSIVE Keep(_)
      Keep(l) == IF l = <<>> THEN <<>>
                 ELSE IF Head(l) \in Entries(t, p) THEN <<Head(l)>> \o Keep(Tail(l))
                 ELSE Keep(Tail(l))
  IN Keep(o)

\* a variant that walks the entries as they are listed
ByListing(l) == l

\* file.rs 80: .sort_by_file_name()
RECURSIVE SortByFileName(_)
SortByFileName(l) ==
  IF l = <<>> THEN <<>>
  ELSE LET i == CHOOSE x \in 1..Len(l) : \A y \in 1..Len(l) : NameRank(l[x]) <= NameRank(l[y])
       IN <<l[i]>> \o SortByFileName([j \in 1..(Len(l) - 1) |-> IF j < i THEN l[j] ELSE l[j + 1]])

\* file.rs 78-83: WalkDir::new(dir) ... .filter(is_file): the files below
\* p, each directory gone through in sorted order and entered where it stands
RECURSIVE WalkDir(_, _, _)
WalkDir(t, p, o) ==
  LET entries == SortByFileName(ReadDirOf(t, p, o))
      Yield[i \in 0..Len(entries)] ==
        IF i = 0 THEN <<>>
        ELSE LET q == Append(p, entries[i])
             IN Yield[i - 1] \o (IF q \in t THEN <<q>> ELSE WalkDir(t, q, o))
  IN Yield[Len(entries)]

\* file.rs 85-86: file_name().ends_with(".tpl")
EndsWithTpl(path) == path[Len(path)] = "a.tpl"

\* file.rs 84-94: the File of the entry at path e of the group directory
FileOf(group, e) ==
  [group |-> group, relative_path |-> e, source_path |-> <<group>> \o e,
   is_template |-> EndsWithTpl(e)]

\* file.rs 68-98: get_files on the directory of a group whose files are t
GetFilesOf(group, t, o) ==
  LET found == WalkDir(t, <<>>, o)
  IN [i \in 1..Len(found) |-> FileOf(group, found[i])]

\* a call of get_files on a group directory, which may not be there
InitGetFiles ==
  /\ mode = "get_files"
  /\ dirs = {}
  /\ manifest = EmptyMap
  /\ pc = "get_files"
  /\ Idle
  /\ listing = <<>>
  /\ extent = [keys |-> {}, paths |-> <<>>, scripts |-> <<>>, files |-> 0, tasks |-> 0,
               limits |-> {}]
  /\ config = EmptyMap
  /\ secrets = EmptyMap
  /\ present = OptionalDirs
  /\ package_files = EmptyMap
  /\ content = <<>>
  /\ \/ tree \in [{GroupNames[1]} -> Trees(MaxDepth, MaxTreeFiles)]
     \/ tree = EmptyMap

\* file.rs 68-98, the directory being listed in any order
GetGroupFiles ==
  /\ pc = "get_files"
  /\ \/ /\ GroupNames[1] \notin DOMAIN tree
        /\ files' = <<>>
        /\ UNCHANGED listing
     \/ /\ GroupNames[1] \in DOMAIN tree
        /\ \E o \in Orders(Range(EntryNames)) :
             /\ listing' = o
             /\ files' = GetFilesOf(GroupNames[1], tree[GroupNames[1]], o)
  /\ pc' = "done"
  /\ result' = "Ok"
  /\ UNCHANGED <<mode, dirs, manifest, twice, places, resolver, loop, hist, error,
                 at, output, errs, extent, config, secrets, from_config, from_secrets,
                 pkg_config, pkg_secrets, tasks, context, envs, steps, overridden,
                 written, twin_written>>

SpecGetFiles == InitGetFiles /\ [][GetGroupFiles]_vars

(* ------------------------- claims on get_files ------------------------- *)
\* Path::cmp: the paths are compared component by component
RECURSIVE PathLess(_, _)
PathLess(p, q) ==
  IF q = <<>> THEN FALSE
  ELSE IF p = <<>> THEN TRUE
  ELSE IF Head(p) = Head(q) THEN PathLess(Tail(p), Tail(q))
  ELSE NameRank(Head(p)) < NameRank(Head(q))

\* C22: get_files returns the files of a group directory, at any nesting
\* depth, each once, sorted by their full relative path; as only one
\* sequence is so, the result is the same whatever the order in which the
\* directories were listed.
C22_FilesSortedByRelativePath ==
  (mode = "get_files" /\ pc = "done" /\ GroupNames[1] \in DOMAIN tree)
    => /\ result = "Ok"
       /\ {files[i].relative_path : i \in 1..Len(files)} = tree[GroupNames[1]]
       /\ \A i, j \in 1..Len(files) :
            i < j => PathLess(files[i].relative_path, files[j].relative_path)

\* C22's case: a directory listed against the order of the names gave
\* three files, one of them two directories down
C22_NestedFilesListedBackwards ==
  /\ mode = "get_files"
  /\ pc = "done"
  /\ listing = <<"a.tpl", "a">>
  /\ Len(files) = 3
  /\ \E i \in 1..Len(files) : Len(files[i].relative_path) = 3

(* ------------- apply_package: where the files are written -------------- *)
\* the files of one group of a package
MaxGroupFiles == 2

\* apply.rs 101: PathBuf::from("/"), the root having no component
RootPath == <<>>

\* the target roots a manifest may map a group to
TargetRoots == {<<"srv">>, <<"srv", "a">>}

\* package.yml `files:`: some of the groups, each with its target root
Mappings == UNION {[G -> TargetRoots] : G \in SUBSET Range(GroupNames)}

\* the files directory of a package: some of the groups, each with files
\* at the top of the group directory or one directory down
FilesDirs == UNION {[G -> Trees(2, MaxGroupFiles)] : G \in SUBSET Range(GroupNames)}

\* Path::join of a relative path
Join(base, rel) == base \o rel

\* a variant that writes every group below the root
TargetIsRoot(file) == RootPath

\* apply.rs 104-108: package.files.get(&file.group) ... .unwrap_or(&root_path)
TargetPath(file) ==
  IF file.group \in DOMAIN package_files THEN package_files[file.group] ELSE RootPath

\* file.rs 128 and 142-151, 155-168: what the destination is left with, the
\* rendering or the copy of the file at source_path
ContentOf(file) == [of |-> file.source_path, rendered |-> file.is_template]

\* file.rs 23-32: the files of the groups, the groups as g lists them
RECURSIVE GetAllFilesOf(_, _)
GetAllFilesOf(g, o) ==
  IF g = <<>> THEN <<>>
  ELSE GetFilesOf(Head(g), tree[Head(g)], o) \o GetAllFilesOf(Tail(g), o)

\* the file loop of apply_package on a package directory
InitTargets ==
  /\ mode = "apply_files"
  /\ dirs = {}
  /\ manifest = EmptyMap
  /\ pc = "get_all_files"
  /\ Idle
  /\ listing = <<>>
  /\ extent = [keys |-> {}, paths |-> <<>>, scripts |-> <<>>, files |-> 0, tasks |-> 0,
               limits |-> {}]
  /\ config = EmptyMap
  /\ secrets = EmptyMap
  /\ content = <<>>
  /\ package_files \in Mappings
  /\ \/ /\ present = OptionalDirs
        /\ tree \in FilesDirs
     \/ /\ present = OptionalDirs \ {"files"}
        /\ tree = EmptyMap

beside_targets ==
  <<mode, dirs, manifest, twice, loader, resolver, loop, hist, present, package_files,
    tree, content, extent, config, secrets, from_config, from_secrets, pkg_config,
    pkg_secrets, tasks, context, envs, overridden, written, twin_written>>

\* apply.rs 102 and file.rs 23-65: the files of every group, the groups in
\* the order read_dir gives them; no files directory, no file
GetAllFiles ==
  /\ pc = "get_all_files"
  /\ \/ /\ "files" \notin present
        /\ files' = <<>>
        /\ pc' = "for_file"
        /\ UNCHANGED <<result, error>>
     \/ /\ "files" \in present
        /\ \E g \in Orders(DOMAIN tree), o \in Orders(Range(EntryNames)) :
             files' = GetAllFilesOf(g, o)
        /\ pc' = "for_file"
        /\ UNCHANGED <<result, error>>
     \/ /\ "files" \in present
        /\ Fail("list", "files")
        /\ UNCHANGED files
  /\ UNCHANGED <<beside_targets, disk, steps>>

\* apply.rs 103-117 with file.rs 103-170: the next file is rendered or
\* copied to its target path joined with its relative path
ApplyToTarget ==
  /\ pc = "for_file"
  /\ files # <<>>
  /\ LET file == Head(files)
     IN \/ /\ disk' = MapPut(disk, Join(TargetPath(file), file.relative_path), ContentOf(file))
           /\ steps' = Step("file", file, TRUE)
           /\ files' = Tail(files)
           /\ UNCHANGED <<pc, result, error>>
        \/ /\ Fail("step", "file")
           /\ steps' = Step("file", file, FALSE)
           /\ UNCHANGED <<disk, files>>
  /\ UNCHANGED beside_targets

\* apply.rs 117: the loop has gone through every file
FilesApplied ==
  /\ pc = "for_file"
  /\ files = <<>>
  /\ pc' = "done"
  /\ result' = "Ok"
  /\ UNCHANGED <<beside_targets, error, files, disk, steps>>

NextTargets ==
  \/ GetAllFiles
  \/ ApplyToTarget
  \/ FilesApplied

SpecTargets == InitTargets /\ [][NextTargets]_vars

(* ------------------- claims on the target of a file -------------------- *)
\* the target root the manifest gives the group of a file: its entry of
\* `files`, '/' without one
RootOf(f) == IF f.group \in DOMAIN package_files THEN package_files[f.group] ELSE <<>>

\* the destination the spec gives a file: the root, then the relative path
DestinationOf(f) == RootOf(f) \o f.relative_path

\* the files written so far, in the order of their writing
WrittenFiles ==
  LET RECURSIVE Ok(_)
      Ok(l) == IF l = <<>> THEN <<>>
               ELSE IF Head(l).ok THEN <<Head(l).subject>> \o Ok(Tail(l))
               ELSE Ok(Tail(l))
  IN Ok(steps)

MaxContent == 7

\* a key or value character, the separator, a blank and the line terminator
Chars == {"k", "=", " ", "\n"}

\* the texts a config file holds or a config script prints
Contents == UNION {[1..n -> Chars] : n \in 0..MaxContent}

\* the place of the first c of the text l, 0 without one
IndexOf(l, c) ==
  IF \E i \in 1..Len(l) : l[i] = c
  THEN CHOOSE i \in 1..Len(l) : l[i] = c /\ \A j \in 1..(i - 1) : l[j] # c
  ELSE 0

\* config.rs 122: content.split_terminator('\n'); what is left after the
\* last terminator is a line unless it is empty
RECURSIVE SplitTerminator(_)
SplitTerminator(text) ==
  IF text = <<>> THEN <<>>
  ELSE LET i == IndexOf(text, "\n")
       IN IF i = 0 THEN <<text>>
          ELSE <<SubSeq(text, 1, i - 1)>> \o SplitTerminator(SubSeq(text, i + 1, Len(text)))

RECURSIVE TrimStart(_)
TrimStart(l) == IF l # <<>> /\ Head(l) = " " THEN TrimStart(Tail(l)) ELSE l

RECURSIVE TrimEnd(_)
TrimEnd(l) == IF l # <<>> /\ l[Len(l)] = " " THEN TrimEnd(SubSeq(l, 1, Len(l) - 1)) ELSE l

\* config.rs 123: line.trim()
Trim(l) == TrimEnd(TrimStart(l))

\* a variant that splits at the last '='
RSplitOnce(l) ==
  IF IndexOf(l, "=") = 0 THEN None
  ELSE LET i == CHOOSE x \in 1..Len(l) : l[x] = "=" /\ \A y \in (x + 1)..Len(l) : l[y] # "="
       IN Some(<<SubSeq(l, 1, i - 1), SubSeq(l, i + 1, Len(l))>>)

\* config.rs 124: line.split_once('=')
SplitOnce(l) ==
  IF IndexOf(l, "=") = 0 THEN None
  ELSE Some(<<SubSeq(l, 1, IndexOf(l, "=") - 1), SubSeq(l, IndexOf(l, "=") + 1, Len(l))>>)

\* config.rs 121-128: the pairs of the lines, inserted one after the other
RECURSIVE InsertPairs(_, _)
InsertPairs(m, lines) ==
  IF lines = <<>> THEN m
  ELSE LET pair == SplitOnce(Trim(Head(lines)))
       IN InsertPairs(IF pair = None THEN m ELSE MapPut(m, pair[1][1], pair[1][2]),
                      Tail(lines))

\* a call of parse_config on a text
InitParse ==
  /\ mode = "parse_config"
  /\ dirs = {}
  /\ manifest = EmptyMap
  /\ pc = "parse_config"
  /\ Idle
  /\ listing = <<>>
  /\ extent = [keys |-> {}, paths |-> <<>>, scripts |-> <<>>, files |-> 0, tasks |-> 0,
               limits |-> {}]
  /\ config = EmptyMap
  /\ secrets = EmptyMap
  /\ present = OptionalDirs
  /\ package_files = EmptyMap
  /\ tree = EmptyMap
  /\ content \in Contents

\* config.rs 118-131
ParseConfig ==
  /\ pc = "parse_config"
  /\ output' = InsertPairs(EmptyMap, SplitTerminator(content))
  /\ pc' = "done"
  /\ result' = "Ok"
  /\ UNCHANGED <<beside_loader, error, listing, at, errs>>

\* the config store: a text is parsed, or a directory is loaded
SpecConfig == (InitParse \/ InitLoader) /\ [][ParseConfig \/ LoadAllConfig]_vars

(* ---------------------- claims on the config store --------------------- *)
\* the text before the first '=' of a line that has one
KeyOf(l) == SubSeq(l, 1, IndexOf(l, "=") - 1)

\* the text after the first '=' of a line that has one
ValueOf(l) == SubSeq(l, IndexOf(l, "=") + 1, Len(l))

\* the map is what the lines ls define: the keys are those of the lines
\* with a '=', and a key has the value of the last line that defines it
DefinedBy(m, ls) ==
  LET defs == {i \in 1..Len(ls) : IndexOf(ls[i], "=") # 0}
  IN /\ DOMAIN m = {KeyOf(ls[i]) : i \in defs}
     /\ \A i \in defs :
          (\A j \in defs : j > i => KeyOf(ls[j]) # KeyOf(ls[i]))
            => m[KeyOf(ls[i])] = ValueOf(ls[i])

\* across the files of a directory that loaded, a key has the value of the
\* file latest in the listing that defines it
LatestFileWins ==
  (mode = "load_all_config" /\ pc = "done" /\ result = "Ok")
    => /\ DOMAIN output = UNION {DOMAIN listing[i].entries : i \in 1..Len(listing)}
       /\ \A i \in 1..Len(listing) : \A k \in DOMAIN listing[i].entries :
            (\A j \in (i + 1)..Len(listing) : k \notin DOMAIN listing[j].entries)
              => output[k] = listing[i].entries[k]

\* C23 as stated: each line containing '=' yields one pair, its key the
\* text before the first '=' and its value the text after it; lines
\* without '=' contribute nothing and cause no error; a key repeated in a
\* file takes its last value; across the files of a directory a key takes
\* the value of the file latest in the listing.
C23_PairsOfTheLines ==
  /\ (mode = "parse_config" /\ pc = "done")
       => (result = "Ok" /\ DefinedBy(output, SplitTerminator(content)))
  /\ LatestFileWins

\* C23 amended: the same, the key and the value being taken from the line
\* with the white space at its two ends removed.
C23_PairsOfTheTrimmedLines ==
  /\ (mode = "parse_config" /\ pc = "done")
       => /\ result = "Ok"
          /\ LET ls == SplitTerminator(content)
             IN DefinedBy(output, [i \in 1..Len(ls) |-> Trim(ls[i])])
  /\ LatestFileWins

\* C23's case: a text of two lines that define the same key, the first
\* after a blank, was parsed and the key has the value of the second line
C23_RepeatedKeyAfterABlank ==
  /\ mode = "parse_config"
  /\ pc = "done"
  /\ content = <<" ", "k", "=", "\n", "k", "=", "k">>
  /\ output = MapPut(EmptyMap, <<"k">>, <<"k">>)

(* -------------- packages that lack some of their directories ----------- *)
\* a run on packages that have only some of config, secrets, files, scripts
InitOptional ==
  /\ mode \in {"plan", "apply"}
  /\ dirs = {}
  /\ manifest = EmptyMap
  /\ pc = "config"
  /\ Idle
  /\ listing = <<>>
  /\ extent = [keys |-> {"HOST"}, paths |-> SubSeq(FilePaths, 1, 1),
               scripts |-> SubSeq(ScriptNames, 1, 1), files |-> MaxFiles, tasks |-> MaxTasks,
               limits |-> {}]
  /\ config = EmptyMap
  /\ secrets = EmptyMap
  /\ present \in SUBSET OptionalDirs
  /\ NoPlaces

SpecOptional == InitOptional /\ [][NextData]_vars

\* the directory a step of a package reads
DirOf(what) ==
  CASE what = "config" -> "config"
    [] what = "secrets" -> "secrets"
    [] what \in {"get_files", "file"} -> "files"
    [] what \in {"get_tasks", "task"} -> "scripts"

\* C24: a missing optional directory is an empty contribution and not an
\* error: no step of a package fails on, and no file or task step comes
\* from, a directory the package does not have, and what is loaded from it
\* is empty; so a package with only a manifest is applied with a config
\* step and a secrets step that succeed, no file step and no task step,
\* and the global maps as its merged maps.
C24_MissingDirectoryIsEmpty ==
  /\ \A i \in 1..Len(steps) :
       (steps[i].what \in {"file", "task"} \/ ~steps[i].ok) => DirOf(steps[i].what) \in present
  /\ (result = "Err" /\ error[1] = "step" /\ mode = "plan") => DirOf(error[2]) \in present
  /\ "config" \notin present => from_config = EmptyMap
  /\ "secrets" \notin present => from_secrets = EmptyMap
  /\ "files" \notin present => files = <<>>
  /\ "scripts" \notin present => tasks = <<>>
  /\ (present = {} /\ mode = "apply")
       => /\ ~(result = "Err" /\ error[1] = "step")
          /\ pc \in {"pkg_files", "files", "tasks"}
               => (pkg_config = config /\ pkg_secrets = secrets)
          /\ (pc = "call" /\ steps # <<>>)
               => steps = <<[what |-> "config", subject |-> "", ok |-> TRUE],
                            [what |-> "secrets", subject |-> "", ok |-> TRUE]>>

\* C24's case: a package with only a manifest was applied while the global
\* maps hold entries
C24_ManifestOnlyPackageApplied ==
  /\ mode = "apply"
  /\ present = {}
  /\ pc = "call"
  /\ Len(steps) = 2
  /\ DOMAIN config # {}
  /\ DOMAIN secrets # {}

(* ----------------- the retry counter at the ends of u8 ----------------- *)
\* retry.rs 9: the values of `limit: u8` taken here, the largest included
RetryLimits == 0..MaxLimit \cup {U8Modulus - 1}

\* an apply run on at most one package, its retry limit any of RetryLimits
InitRetry ==
  /\ mode = "apply"
  /\ \E n \in 0..1 :
       /\ dirs = DirNames(n)
       /\ manifest \in [DirNames(n) -> Manifests(n)]
  /\ pc = "config"
  /\ Idle
  /\ listing = <<>>
  /\ extent = [keys |-> {}, paths |-> <<>>, scripts |-> <<>>, files |-> 0, tasks |-> 0,
               limits |-> RetryLimits]
  /\ config = EmptyMap
  /\ secrets = EmptyMap
  /\ present = OptionalDirs
  /\ NoPlaces

\* apply.rs 35-78: ApplyCommand::run
ApplyRun ==
  \/ LoadGlobalConfig
  \/ LoadGlobalSecrets
  \/ GetAllPackages
  \/ ForNext
  \/ While
  \/ PkgConfig
  \/ PkgSecrets
  \/ GetFiles
  \/ ApplyFile
  \/ GetTasks
  \/ RunTask
  \/ ApplyOk
  \/ ApplyErr
  \/ Sleep

SpecRetry == InitRetry /\ [][ApplyRun]_vars

(* --------------------- claims on the retry counter --------------------- *)
\* C25: the 8-bit retry counter stays in range for every limit from 0 to
\* 255: it is never more than the limit plus one, a failed attempt adds
\* exactly one to it, so that it never wraps round to 0, and it goes back
\* to 0 only for the next package; the failed attempts of a package being
\* counted without a wrap and the count being bounded, the loop condition
\* cannot stay true for ever while the package keeps failing.
C25_RetryCounterInRange ==
  [][/\ retries' <= limit' + 1
     /\ retries' < U8Modulus
     /\ pc = "attempt_err" => retries' = retries + 1
     /\ retries' < retries => (pc = "loop" /\ retries' = 0)]_vars

\* C25's case: a package of limit 255 failed an attempt and the counter
\* was incremented
C25_FailureAtTheLargestLimit ==
  /\ mode = "apply"
  /\ limit = U8Modulus - 1
  /\ failures = 1
  /\ retries = 1

\* C26: load_all_config stops at the first file that fails to load: no
\* file listed after a file that failed is read or executed.
C26_NothingLoadedAfterAFailure ==
  mode = "load_all_config" => \A i \in 1..at : ~listing[i].ok => at = i

(* ------------- a package directory named like the end node ------------- *)
\* a call of get_all_packages on a packages directory that may hold a
\* directory named "__complete" beside the others
InitNamed ==
  /\ mode = "resolve"
  /\ \E n \in 0..MaxRunPackages, named \in SUBSET {Complete} :
       /\ dirs = DirNames(n) \cup named
       /\ manifest \in [DirNames(n) \cup named -> Manifests(n)]
  /\ pc = "load"
  /\ Idle
  /\ NoData

SpecNamed == InitNamed /\ [][GetAllPackages]_vars

\* C27: the name of the synthetic end node cannot collide with a real
\* package: for a set of packages that is otherwise valid and acyclic and
\* holds a package directory named "__complete", get_all_packages returns
\* Ok and the list holds that package like any other, every package once
\* and after all it needs.
C27_CompleteIsAnOrdinaryName ==
  (mode = "resolve" /\ pc = "done" /\ Complete \in dirs
     /\ AllManifestsLoad /\ ~MissingNeed /\ ~Cyclic)
    => /\ result = "Ok"
       /\ OrderedOnce(packages)

=============================================================================
